---- MODULE Spec2Model ----
\* Model of src/agent.py: the Pionex USDT trading agent (PionexTrader and the
\* ResultLogger it reports to).  One trading cycle is run_trading_cycle:
\*   load_state -> manage_positions -> entry scan -> save_state -> cycle_summary.
\*
\* Numbers.  The program computes in floating point; the model computes the same
\* arithmetic exactly, on integers:
\*   - a price p is held as the integer 100 * p (prices have two decimals), so
\*     that p * 1.05 and p * 0.98 are integers;
\*   - an amount of quote currency is held in ledger units, USDT of them to the
\*     dollar, chosen so that amount_usdt / current_price is exact for the
\*     trade amount at every price of Prices; the base amount of a smaller
\*     notional is rounded down to whole units.
\* Python's None is the integer NONE, and a key that a gateway response does
\* not carry at all is MISSING (dict.get then yields its default).
EXTENDS Integers, Sequences, FiniteSets, TLC

\* ---------------------------------------------------------------- bounds

\* Orders the gateway accepts over a run, buys and sells (order ids are
\* 1..MaxOrders).
MaxOrders == 5

\* Trading cycles run (invocations of run_trading_cycle).
MaxCycles == 3

\* ------------------------------------------------------- representation

NONE == -1
MISSING == -2

\* Ledger units per USDT: a common multiple of the prices of Prices, so that
\* amount_usdt / current_price is exact.
USDT == 147 * 1000

\* -------------------------------------------------- agent configuration

SYMBOLS_TO_TRADE == <<"SHIB/USDT", "DOGE/USDT", "PEPE/USDT", "BTC/USDT", "ETH/USDT">>
INITIAL_BUDGET_USDT == 40 * USDT
TRADE_AMOUNT_PER_COIN_USDT == 10 * USDT
\* The two fractions are held in hundredths: 0.05 and 0.02.
PCT_SCALE == 100
TAKE_PROFIT_PCT == 5
STOP_LOSS_PCT == 2
MAX_OPEN_POSITIONS == 3
RSI_PERIOD == 14
RSI_OVERSOLD == 30
RSI_OVERBOUGHT == 70
\* market.get('limits', {}).get('cost', {}).get('min', 0.1) and
\* market.get('limits', {}).get('amount', {}).get('min', 0)
DEFAULT_MIN_COST == USDT \div 10
DEFAULT_MIN_AMOUNT == 0

\* ------------------------------------------------- what the gateway says

\* What the gateway answers in the cycles explored.  (The single calls
\* further down range over wider sets.)
\* Last-trade prices of a ticker: 98.00, 100.00 and 105.00.
Prices == {9800, 10000, 10500}
\* The price at which the candles of a symbol show a buy signal: 100.00.
SignalPrices == {10000}
\* get_current_price: a price, 0, or None (ticker['last'] null, or the fetch
\* raised).
TickerOutcomes == Prices \cup {0, NONE}
\* order['price'] and order['filled'] of an accepted buy: absent.
PriceFields == {MISSING}
FilledFields == {MISSING}
\* sell_order['cost'] of an accepted sell: absent or null.
CostFields == {MISSING, NONE}
\* limits.cost.min and limits.amount.min of the market metadata: absent.
MinCostFields == {MISSING}
MinAmountFields == {MISSING}

\* ------------------------------------------------------------- dict.get

\* d.get(key, default): the default only when the key is absent; a key that is
\* present with a null value yields None.
Get(field, default) ==
    IF field = MISSING THEN default ELSE field

\* Python truthiness of a number or None: `not x`.
Not(x) ==
    x = NONE \/ x = 0

\* ------------------------------------------------------------- indicator

\* seq[:n], Python slicing: the first n entries, or all of them when fewer.
Take(seq, n) ==
    [i \in 1..(IF n < Len(seq) THEN n ELSE Len(seq)) |-> seq[i]]

RECURSIVE Sum(_)
Sum(seq) ==
    IF seq = <<>> THEN 0 ELSE Head(seq) + Sum(Tail(seq))

\* deltas, gains and losses of calculate_rsi.
Deltas(closes) ==
    [i \in 1..(Len(closes) - 1) |-> closes[i + 1] - closes[i]]

Gains(deltas) ==
    [i \in 1..Len(deltas) |-> IF deltas[i] > 0 THEN deltas[i] ELSE 0]

Losses(deltas) ==
    [i \in 1..Len(deltas) |-> IF deltas[i] < 0 THEN -deltas[i] ELSE 0]

\* Wilder's smoothing loop, for i in range(period, len(gains)).  An average is
\* the exact fraction num / den; the loop index i is 1-based here.
RECURSIVE Smooth(_, _, _, _, _)
Smooth(seq, period, i, num, den) ==
    IF i > Len(seq) THEN [num |-> num, den |-> den]
    ELSE Smooth(seq, period, i + 1, num * (period - 1) + seq[i] * den, den * period)

\* calculate_rsi(ohlcv, period) on the close prices of the candles.  The result
\* is absent (None) or the exact fraction num / den; avg_gain and avg_loss have
\* the same denominator, so 100 - 100 / (1 + rs) = 100 * avg_gain / (avg_gain +
\* avg_loss) is formed from the numerators alone.
NoRsi == [none |-> TRUE, num |-> 0, den |-> 1]

\* A variant of calculate_rsi without the test of avg_loss against 0: the
\* division avg_gain / avg_loss is then by zero, shown as a zero denominator.
calculate_rsi_unguarded(closes, period) ==
    IF closes = <<>> \/ Len(closes) < period THEN NoRsi
    ELSE LET gains == Gains(Deltas(closes))
             losses == Losses(Deltas(closes))
             avg_gain == Smooth(gains, period, period + 1, Sum(Take(gains, period)), period)
             avg_loss == Smooth(losses, period, period + 1, Sum(Take(losses, period)), period)
         IN  IF avg_loss.num = 0 THEN [none |-> FALSE, num |-> avg_gain.num, den |-> 0]
             ELSE [none |-> FALSE, num |-> 100 * avg_gain.num,
                   den |-> avg_gain.num + avg_loss.num]

calculate_rsi(closes, period) ==
    IF closes = <<>> \/ Len(closes) < period THEN NoRsi
    ELSE LET gains == Gains(Deltas(closes))
             losses == Losses(Deltas(closes))
             avg_gain == Smooth(gains, period, period + 1, Sum(Take(gains, period)), period)
             avg_loss == Smooth(losses, period, period + 1, Sum(Take(losses, period)), period)
         IN  IF avg_loss.num = 0 THEN [none |-> FALSE, num |-> 100, den |-> 1]
             ELSE [none |-> FALSE, num |-> 100 * avg_gain.num,
                   den |-> avg_gain.num + avg_loss.num]

\* `not rsi`: None, or a value equal to 0.
NotRsi(rsi) ==
    rsi.none \/ rsi.num = 0

\* rsi < bound and rsi > bound, for a value that is present.
RsiBelow(rsi, bound) ==
    rsi.num < bound * rsi.den

RsiAbove(rsi, bound) ==
    rsi.num > bound * rsi.den

\* Close prices of the candles get_ohlcv returns; <<>> is also what it returns
\* when the fetch raises or the gateway has no fetchOHLCV.
NoCandles == <<>>
ShortCandles == [k \in 1..10 |-> 20 + k]
FallingCandles == [k \in 1..16 |-> 40 - k]
RisingCandles == [k \in 1..16 |-> 20 + k]
DipCandles == [k \in 1..16 |-> IF k = 1 THEN 30 ELSE IF k = 2 THEN 34 ELSE 36 - k]
FlatCandles == [k \in 1..16 |-> 30 + (k % 2)]
CandleFeeds ==
    {NoCandles, ShortCandles, FallingCandles, RisingCandles, DipCandles, FlatCandles}

\* ------------------------------------------------------- trading state

\* state["open_positions"] is a dict keyed by order id, which keeps insertion
\* order: a sequence of positions, each carrying its key as `id`.
Ids(open_positions) ==
    [k \in 1..Len(open_positions) |-> open_positions[k].id]

HasId(open_positions, id) ==
    \E k \in 1..Len(open_positions) : open_positions[k].id = id

PositionOf(open_positions, id) ==
    open_positions[CHOOSE k \in 1..Len(open_positions) : open_positions[k].id = id]

\* open_positions[id] = position: a new key is appended, an existing key keeps
\* its place and takes the new value.
DictSet(open_positions, position) ==
    IF HasId(open_positions, position.id)
    THEN [k \in 1..Len(open_positions) |->
            IF open_positions[k].id = position.id THEN position ELSE open_positions[k]]
    ELSE Append(open_positions, position)

\* del open_positions[id]
DictDel(open_positions, id) ==
    SelectSeq(open_positions, LAMBDA p : p.id # id)

\* The default state of load_state.
DefaultState ==
    [open_positions |-> <<>>,
     total_budget_usdt |-> INITIAL_BUDGET_USDT,
     available_budget_usdt |-> INITIAL_BUDGET_USDT]

\* entry * (1 + TAKE_PROFIT_PCT) and entry * (1 - STOP_LOSS_PCT); exact, a
\* price being a multiple of PCT_SCALE.
TakeProfitPrice(entry_price) ==
    (entry_price * (PCT_SCALE + TAKE_PROFIT_PCT)) \div PCT_SCALE

StopLossPrice(entry_price) ==
    (entry_price * (PCT_SCALE - STOP_LOSS_PCT)) \div PCT_SCALE

\* ------------------------------------------------------- result logger

\* One save_result call: the lookup GET, then the PUT.
SaveOutcomes ==
    [get : {"200", "404", "raise"}, put : {"ok", "http_error", "network_error"}]

\* save_result(data, result_type): the GET's failure is swallowed, the PUT's
\* failure is caught; True exactly when the PUT succeeds.  It never raises.
save_result(outcome) ==
    outcome.put = "ok"

\* A variant of save_result whose except clause lets a network error through.
RaisesOnNetworkError(outcome) ==
    outcome.put = "network_error"

\* Whether save_result raises to its caller.  The GET and what is read from
\* its response stand in a try whose except catches Exception (lines 58-63),
\* and so do the PUT and raise_for_status (lines 66-73): whatever the outcome,
\* nothing escapes.
SaveResultRaises(outcome) ==
    FALSE

\* A record handed to save_result: its result_type and the "symbol" and
\* "order_id" entries of its data, where it has them.
Record(type, symbol, order_id) ==
    [type |-> type, symbol |-> symbol, order_id |-> order_id]

\* ------------------------------------------------------ order placement

\* What create_order was asked and what it answered, for one call of it.
NoSubmission ==
    [submitted |-> FALSE, side |-> "", symbol |-> "", amount_base |-> 0,
     accepted |-> FALSE, id |-> 0]

Submission(side, symbol, amount_base, accepted, id) ==
    [submitted |-> TRUE, side |-> side, symbol |-> symbol, amount_base |-> amount_base,
     accepted |-> accepted, id |-> id]

\* The gateway's part in one place_order call: exchange.market(symbol) and its
\* limits, then create_order and the order it returns.
BuyResponse(market, min_cost, min_amount, create, price, filled) ==
    [market |-> market, min_cost |-> min_cost, min_amount |-> min_amount,
     create |-> create, price |-> price, filled |-> filled, cost |-> MISSING]

\* Every answer that leads place_order down a different path, over the given
\* field values; a field the path never reads is left MISSING.
BuyResponsesOver(min_costs, min_amounts, prices, filleds) ==
    {BuyResponse("raise", MISSING, MISSING, "raise", MISSING, MISSING)}
    \cup {BuyResponse("ok", c, MISSING, "raise", MISSING, MISSING) :
            c \in min_costs \ {MISSING}}
    \cup {BuyResponse("ok", MISSING, a, "raise", MISSING, MISSING) :
            a \in min_amounts \ {MISSING}}
    \cup {BuyResponse("ok", MISSING, MISSING, "raise", MISSING, MISSING)}
    \cup {BuyResponse("ok", MISSING, MISSING, "ok", p, f) :
            p \in prices, f \in filleds}

BuyResponses ==
    BuyResponsesOver(MinCostFields, MinAmountFields, PriceFields, FilledFields)

\* A variant of the except branch that reports nothing.
PlaceOrderFailedSilently(symbol, st, order, records) ==
    [state |-> st, ret |-> "none", order |-> order, failed |-> TRUE,
     records |-> records]

\* The except branch of place_order: one error record, no order returned.
PlaceOrderFailed(symbol, st, order, records) ==
    [state |-> st, ret |-> "none", order |-> order, failed |-> TRUE,
     records |-> Append(records, Record("error", symbol, 0))]

\* return None of the gates of place_order, lines 153, 166 and 169.
PlaceOrderSkipped(st) ==
    [state |-> st, ret |-> "none", order |-> NoSubmission, failed |-> FALSE,
     records |-> <<>>]

\* Line 151: state["available_budget_usdt"] < amount_usdt and side == "buy"
InsufficientBudget(st, side, amount_usdt) ==
    st.available_budget_usdt < amount_usdt /\ side = "buy"

\* A variant of the minimum checks that lets every amount pass.
NeverBelowMinimum(amount, minimum) ==
    FALSE

\* Lines 164 and 167: amount_usdt < min_cost, amount_base < min_amount
BelowMinimum(amount, minimum) ==
    amount < minimum

\* place_order(symbol, side, amount_usdt, current_price, state) against the
\* gateway answer gw, which accepts an order under the id new_id.
PlaceOrder(symbol, side, amount_usdt, current_price, st, gw, new_id) ==
    IF InsufficientBudget(st, side, amount_usdt)
    THEN PlaceOrderSkipped(st)
    ELSE IF current_price = 0 \/ current_price = NONE
    THEN \* amount_usdt / current_price raises
         PlaceOrderFailed(symbol, st, NoSubmission, <<>>)
    ELSE LET amount_base == amount_usdt \div current_price
             min_cost == Get(gw.min_cost, DEFAULT_MIN_COST)
             min_amount == Get(gw.min_amount, DEFAULT_MIN_AMOUNT)
             price_executed == Get(gw.price, current_price)
             amount_filled_base == Get(gw.filled, amount_base)
             sent == Submission(side, symbol, amount_base, gw.create = "ok", new_id)
             position ==
                [id |-> new_id, symbol |-> symbol, entry_price |-> price_executed,
                 amount_base |-> amount_filled_base, amount_usdt |-> amount_usdt,
                 take_profit_price |-> TakeProfitPrice(price_executed),
                 stop_loss_price |-> StopLossPrice(price_executed)]
             opened == <<Record("order_open", symbol, new_id)>>
         IN  IF gw.market = "raise" \/ min_cost = NONE
             THEN \* amount_usdt < None raises
                  PlaceOrderFailed(symbol, st, NoSubmission, <<>>)
             ELSE IF BelowMinimum(amount_usdt, min_cost)
             THEN PlaceOrderSkipped(st)
             ELSE IF min_amount = NONE
             THEN PlaceOrderFailed(symbol, st, NoSubmission, <<>>)
             ELSE IF BelowMinimum(amount_base, min_amount)
             THEN PlaceOrderSkipped(st)
             ELSE IF gw.create = "raise"
             THEN PlaceOrderFailed(symbol, st, sent, <<>>)
             ELSE IF side # "buy"
             THEN [state |-> st, ret |-> "order", order |-> sent, failed |-> FALSE,
                   records |-> opened]
             ELSE IF price_executed = NONE
             THEN \* None * (1 + TAKE_PROFIT_PCT) raises while the position is built
                  PlaceOrderFailed(symbol, st, sent, opened)
             ELSE [state |->
                      [st EXCEPT !.open_positions = DictSet(@, position),
                                 !.available_budget_usdt = @ - amount_usdt],
                   ret |-> "order", order |-> sent, failed |-> FALSE,
                   records |-> opened]

\* --------------------------------------------------- position management

\* The gateway's part in closing one position: create_order for the sell and
\* the order it returns.
SellResponse(create, cost) ==
    [market |-> "ok", min_cost |-> MISSING, min_amount |-> MISSING,
     create |-> create, price |-> MISSING, filled |-> MISSING, cost |-> cost]

SellResponsesOver(costs) ==
    {SellResponse("raise", MISSING)} \cup {SellResponse("ok", c) : c \in costs}

SellResponses ==
    SellResponsesOver(CostFields)

\* The exit rule of manage_positions: "take_profit", "stop_loss" or "" (hold).
ExitReason(position, current_price) ==
    IF current_price >= position.take_profit_price THEN "take_profit"
    ELSE IF current_price <= position.stop_loss_price THEN "stop_loss"
    ELSE ""

\* A variant of the except branch that lists the position for deletion all
\* the same.
CloseFailedButListed(position, st, positions_to_close, reason, order) ==
    [state |-> st, positions_to_close |-> Append(positions_to_close, position.id),
     reason |-> reason, order |-> order,
     records |-> <<Record("error", position.symbol, position.id)>>]

\* The except branch of the close attempt: one error record, nothing else.
CloseFailed(position, st, positions_to_close, reason, order) ==
    [state |-> st, positions_to_close |-> positions_to_close, reason |-> reason,
     order |-> order,
     records |-> <<Record("error", position.symbol, position.id)>>]

\* A variant of the P&L of a close that forgets the entry value.
GrossPnl(exit_value_usdt, entry_value_usdt) ==
    exit_value_usdt

\* A variant of the P&L of a close with the sign reversed.
ReversedPnl(exit_value_usdt, entry_value_usdt) ==
    entry_value_usdt - exit_value_usdt

\* pnl = exit_value_usdt - entry_value_usdt
Pnl(exit_value_usdt, entry_value_usdt) ==
    exit_value_usdt - entry_value_usdt

\* A variant of the settlement of a close that deletes the position at once.
SettleAndDelete(st, position, exit_value_usdt, pnl) ==
    [st EXCEPT !.available_budget_usdt = @ + exit_value_usdt,
               !.total_budget_usdt = @ + pnl,
               !.open_positions = DictDel(@, position.id)]

\* Lines 248-249: the proceeds go to the available budget and the P&L to the
\* total; the position stays in open_positions until the loop is over.
Settle(st, position, exit_value_usdt, pnl) ==
    [st EXCEPT !.available_budget_usdt = @ + exit_value_usdt,
               !.total_budget_usdt = @ + pnl]

\* One iteration of the loop of manage_positions, for `position`, with the
\* ticker price current_price and the gateway answer gw.
ManagePosition(position, current_price, st, positions_to_close, gw) ==
    LET reason == ExitReason(position, current_price)
        sell_amount_base == position.amount_base
        sent == Submission("sell", position.symbol, sell_amount_base, gw.create = "ok", 0)
        \* sell_order.get('cost', sell_amount_base * current_price): the default
        \* is computed before the lookup
        exit_value_usdt == Get(gw.cost, sell_amount_base * current_price)
        pnl == Pnl(exit_value_usdt, position.amount_usdt)
    IN  IF Not(current_price) \/ reason = ""
        THEN [state |-> st, positions_to_close |-> positions_to_close,
              reason |-> IF Not(current_price) THEN "" ELSE reason,
              order |-> NoSubmission, records |-> <<>>]
        ELSE IF gw.create = "raise"
        THEN CloseFailed(position, st, positions_to_close, reason, sent)
        ELSE IF sell_amount_base = NONE \/ exit_value_usdt = NONE
        THEN \* None * current_price, or None - entry_value_usdt, raises
             CloseFailed(position, st, positions_to_close, reason, sent)
        ELSE [state |-> Settle(st, position, exit_value_usdt, pnl),
              positions_to_close |-> Append(positions_to_close, position.id),
              reason |-> reason, order |-> sent,
              records |-> <<Record("order_close", position.symbol, position.id)>>]

\* for order_id in positions_to_close: del state["open_positions"][order_id]
RECURSIVE CommitCloses(_, _)
CommitCloses(open_positions, positions_to_close) ==
    IF positions_to_close = <<>> THEN open_positions
    ELSE CommitCloses(DictDel(open_positions, Head(positions_to_close)),
                      Tail(positions_to_close))

\* place_order and one iteration of manage_positions with the outcome net of
\* the save_result calls they make.  Were save_result to raise, the exception
\* would strike inside the try (lines 184 and 243), send the call to its
\* except branch, strike again at the save_result there (lines 199 and 253)
\* and leave the call: nothing registered, no budget changed, no record out.
PlaceOrderReporting(symbol, side, amount_usdt, current_price, st, gw, new_id, net) ==
    LET r == PlaceOrder(symbol, side, amount_usdt, current_price, st, gw, new_id)
    IN  IF r.records # <<>> /\ SaveResultRaises(net)
        THEN [state |-> st, ret |-> "raise", order |-> r.order, failed |-> TRUE,
              records |-> <<>>]
        ELSE r

ManagePositionReporting(position, current_price, st, positions_to_close, gw, net) ==
    LET r == ManagePosition(position, current_price, st, positions_to_close, gw)
    IN  IF r.records # <<>> /\ SaveResultRaises(net)
        THEN [state |-> st, positions_to_close |-> positions_to_close,
              reason |-> r.reason, order |-> r.order, records |-> <<>>]
        ELSE r

\* manage_positions(state) as a whole: the loop over the positions of
\* open_positions, inputs[k] being the ticker price and the gateway answer met
\* by the k-th of them, then the deletions.  `steps` keeps, for each position,
\* what its iteration met and did.
RECURSIVE ManageLoop(_, _, _, _, _)
ManageLoop(positions, inputs, st, positions_to_close, steps) ==
    IF positions = <<>>
    THEN [state |-> [st EXCEPT !.open_positions = CommitCloses(@, positions_to_close)],
          positions_to_close |-> positions_to_close, steps |-> steps]
    ELSE LET position == Head(positions)
             i == Head(inputs)
             r == ManagePosition(position, i[1], st, positions_to_close, i[2])
         IN  ManageLoop(Tail(positions), Tail(inputs), r.state, r.positions_to_close,
                        Append(steps, [position |-> position, current_price |-> i[1],
                                       gw |-> i[2], before |-> st, after |-> r.state,
                                       reason |-> r.reason, order |-> r.order,
                                       records |-> r.records]))

ManagePositions(st, inputs) ==
    ManageLoop(st.open_positions, inputs, st, <<>>, <<>>)

\* ------------------------------------------------------ the constructor

\* PIONEX_API_KEY and PIONEX_API_SECRET as os.getenv gives them: None when the
\* variable is unset (written "None" here), the empty string, or a value.
Credentials == {"None", "", "k3y"}

\* `not api_key`: true of None and of the empty string.
NotCredential(c) ==
    c \in {"None", ""}

\* PionexTrader.__init__: what it raises ("" when it returns), whether the
\* gateway was contacted, and the records handed to save_result.  init is
\* the outcome of ccxt.pionex(...) and load_markets().
Construct(api_key, api_secret, init) ==
    IF NotCredential(api_key) \/ NotCredential(api_secret)
    THEN [raised |-> "ValueError", contacted |-> FALSE, records |-> <<>>]
    ELSE IF init = "raise"
    THEN [raised |-> "Exception", contacted |-> TRUE,
          records |-> <<Record("error", "", 0)>>]
    ELSE [raised |-> "", contacted |-> TRUE, records |-> <<>>]

\* ------------------------------------------------------ state persistence

\* json.dump(state): the document written to the state file, the budgets and
\* then one entry per position, in the order of the dict.
PositionEntry(p) ==
    <<p.id, p.symbol, p.entry_price, p.amount_base, p.amount_usdt,
      p.take_profit_price, p.stop_loss_price>>

json_dump(st) ==
    <<st.total_budget_usdt, st.available_budget_usdt>>
    \o [k \in 1..Len(st.open_positions) |-> PositionEntry(st.open_positions[k])]

\* json.load(f) of such a document.
EntryPosition(e) ==
    [id |-> e[1], symbol |-> e[2], entry_price |-> e[3], amount_base |-> e[4],
     amount_usdt |-> e[5], take_profit_price |-> e[6], stop_loss_price |-> e[7]]

\* A variant of json.load that reads the budgets and loses the positions.
json_load_budgets(doc) ==
    [open_positions |-> <<>>,
     total_budget_usdt |-> doc[1],
     available_budget_usdt |-> doc[2]]

json_load(doc) ==
    [open_positions |-> [k \in 1..(Len(doc) - 2) |-> EntryPosition(doc[k + 2])],
     total_budget_usdt |-> doc[1],
     available_budget_usdt |-> doc[2]]

\* The state file: absent, a document, or the torn remains of a failed write.
NoFile == [kind |-> "absent", doc |-> <<>>]
CorruptFile == [kind |-> "corrupt", doc |-> <<>>]

\* load_state() on the file f; read is "ok" or "raise" (open or parse failed).
load_state(f, read) ==
    IF f.kind = "json" /\ read = "ok" THEN json_load(f.doc) ELSE DefaultState

\* save_state(state): the file after it.  open(..., 'w') truncates the file
\* before json.dump writes, so a failed write leaves it torn; a failed open
\* leaves it as it was.
save_state(f, st, write) ==
    IF write = "ok" THEN [kind |-> "json", doc |-> json_dump(st)]
    ELSE IF write = "open_failed" THEN f
    ELSE CorruptFile

WriteOutcomes == {"ok", "open_failed", "write_failed"}
ReadOutcomes == {"ok", "raise"}

\* ------------------------------------------------------------ entry scan

\* Variants of the limit on open positions, against which the claims on it
\* are tried: no limit, and a limit that lets a fourth position in.
NoMax(open_positions) ==
    FALSE

AboveMax(open_positions) ==
    Len(open_positions) > MAX_OPEN_POSITIONS

\* Lines 267 and 275: len(state["open_positions"]) >= 3
AtMax(open_positions) ==
    Len(open_positions) >= MAX_OPEN_POSITIONS

\* A variant of the scan that never finds a symbol in position.
NoSymbolInPosition(open_positions, symbol) ==
    FALSE

\* any(pos['symbol'] == symbol for pos in state['open_positions'].values())
SymbolInPosition(open_positions, symbol) ==
    \E k \in 1..Len(open_positions) : open_positions[k].symbol = symbol

\* What one iteration did when it placed no order.
NotPlaced(st) ==
    [state |-> st, placed |-> FALSE, ret |-> "none", order |-> NoSubmission,
     failed |-> FALSE, records |-> <<>>]

\* rsi = self.calculate_rsi(ohlcv), line 283, for each of the candle feeds.
FeedRsi ==
    [ohlcv \in CandleFeeds |-> calculate_rsi(ohlcv, RSI_PERIOD)]

\* One iteration of the entry scan, lines 277-308, for `symbol`: the candles
\* ohlcv (their close prices) and the rsi computed from them, the ticker price
\* current_price, the gateway answer gw.
ScanSymbol(symbol, ohlcv, rsi, current_price, st, gw, new_id) ==
    LET r == PlaceOrder(symbol, "buy", TRADE_AMOUNT_PER_COIN_USDT, current_price,
                        st, gw, new_id)
    IN  IF ohlcv = <<>> THEN NotPlaced(st)
        ELSE IF NotRsi(rsi) \/ Not(current_price) THEN NotPlaced(st)
        ELSE IF SymbolInPosition(st.open_positions, symbol) THEN NotPlaced(st)
        ELSE IF RsiBelow(rsi, RSI_OVERSOLD)
        THEN [state |-> r.state, placed |-> TRUE, ret |-> r.ret, order |-> r.order,
              failed |-> r.failed, records |-> r.records]
        ELSE NotPlaced(st)

\* ------------------------------------------------------------------ state

VARIABLES
    file,                \* the state file trading_state.json
    state,               \* the state dict of the running cycle
    pc,                  \* where run_trading_cycle stands
    todo,                \* order ids manage_positions has still to visit
    positions_to_close,  \* the list of that name in manage_positions
    scan,                \* index into SYMBOLS_TO_TRADE of the entry scan
    next_order_id,       \* the id the gateway gives the next order it accepts
    loaded,              \* what load_state returned to this cycle
    managed,             \* len(open_positions) when manage_positions returned
    raised,              \* ids whose sell the gateway refused, in the last manage_positions
    cycles,              \* trading cycles started
    sold,                \* ids of the positions for which the gateway accepted a sell
    ev                   \* what the last step did

vars ==
    <<file, state, pc, todo, positions_to_close, scan, next_order_id, loaded,
      managed, raised, cycles, sold, ev>>

\* What one step did: the position or symbol it was about, the state dict it
\* found (for a step of manage_positions or of the scan), whether place_order
\* was called and what it returned, the order sent to the gateway, the exit
\* reason, the records handed to save_result, and the outcome of file I/O.
Event(op) ==
    [op |-> op, symbol |-> "", order_id |-> 0, before |-> DefaultState,
     placed |-> FALSE, ret |-> "none", order |-> NoSubmission, reason |-> "",
     published |-> <<>>, io |-> ""]

Init ==
    /\ file = NoFile
    /\ state = DefaultState
    /\ pc = "idle"
    /\ todo = <<>>
    /\ positions_to_close = <<>>
    /\ scan = 1
    /\ next_order_id = 1
    /\ loaded = DefaultState
    /\ managed = 0
    /\ raised = {}
    /\ cycles = 0
    /\ sold = {}
    /\ ev = Event("init")

\* ---------------------------------------------------------------- actions

\* run_trading_cycle, line 260: state = self.load_state(); manage_positions
\* then takes its copy of the items.
LoadState ==
    /\ pc = "idle"
    /\ cycles < MaxCycles
    /\ cycles' = cycles + 1
    /\ \E read \in ReadOutcomes :
        LET st == load_state(file, read)
        IN  /\ state' = st
            /\ loaded' = st
            /\ todo' = Ids(st.open_positions)
            /\ ev' = [Event("load") EXCEPT
                        !.io = IF file.kind = "json" /\ read = "ok" THEN "file" ELSE "default"]
    /\ pc' = "manage"
    /\ positions_to_close' = <<>>
    /\ scan' = 1
    /\ managed' = 0
    /\ raised' = {}
    /\ UNCHANGED <<file, next_order_id, sold>>

\* The exchange numbers the orders it accepts, buys and sells alike.  It
\* accepts MaxOrders orders and refuses the rest.
Capped(gw, new_id) ==
    IF new_id > MaxOrders THEN [gw EXCEPT !.create = "raise"] ELSE gw

\* The inputs of one iteration of manage_positions in the runs explored: the
\* ticker price and the gateway's answer to the sell.  The iteration reads the
\* answer only when the price triggers an exit; elsewhere one answer stands
\* for all.
ManageInputs(position) ==
    {i \in TickerOutcomes \X SellResponses :
        \/ i[2] = SellResponse("raise", MISSING)
        \/ ~Not(i[1]) /\ ExitReason(position, i[1]) # ""}

\* One iteration of the loop of manage_positions, lines 205-253.
ManageStep ==
    /\ pc = "manage"
    /\ todo # <<>>
    /\ LET order_id == Head(todo)
           position == PositionOf(state.open_positions, order_id)
       IN  \E i \in ManageInputs(position) :
             LET r == ManagePosition(position, i[1], state, positions_to_close,
                                     Capped(i[2], next_order_id))
             IN  /\ state' = r.state
                 /\ positions_to_close' = r.positions_to_close
                 /\ next_order_id' = IF r.order.accepted THEN next_order_id + 1
                                     ELSE next_order_id
                 /\ raised' = IF r.order.submitted /\ ~r.order.accepted
                              THEN raised \cup {order_id} ELSE raised
                 /\ sold' = IF r.order.accepted THEN sold \cup {order_id} ELSE sold
                 /\ ev' = [Event("manage") EXCEPT
                             !.symbol = position.symbol, !.order_id = order_id,
                             !.before = state, !.order = r.order, !.reason = r.reason,
                             !.ret = IF r.order.accepted THEN "order" ELSE "none",
                             !.published = r.records]
    /\ todo' = Tail(todo)
    /\ UNCHANGED <<file, pc, scan, loaded, managed, cycles>>

\* The end of manage_positions, lines 255-256: the closed positions are deleted.
ManageCommit ==
    /\ pc = "manage"
    /\ todo = <<>>
    /\ state' = [state EXCEPT !.open_positions = CommitCloses(@, positions_to_close)]
    /\ managed' = Len(state'.open_positions)
    /\ pc' = "gate"
    /\ ev' = Event("commit")
    /\ UNCHANGED <<file, todo, positions_to_close, scan, next_order_id, loaded, raised,
                   cycles, sold>>

\* The process ends with the cycle: what it held in memory is gone.
Exit ==
    /\ pc' = "idle"
    /\ state' = DefaultState
    /\ loaded' = DefaultState
    /\ todo' = <<>>
    /\ positions_to_close' = <<>>
    /\ scan' = 1
    /\ managed' = 0

\* run_trading_cycle, lines 267-271: at the maximum, save the state and return.
MaxPositionsReturn ==
    /\ pc = "gate"
    /\ AtMax(state.open_positions)
    /\ \E write \in WriteOutcomes :
        /\ file' = save_state(file, state, write)
        /\ ev' = [Event("return_at_max") EXCEPT !.io = write]
    /\ Exit
    /\ UNCHANGED <<next_order_id, raised, cycles, sold>>

\* run_trading_cycle, line 274: the entry scan starts.
BeginScan ==
    /\ pc = "gate"
    /\ ~AtMax(state.open_positions)
    /\ pc' = "scan"
    /\ scan' = 1
    /\ ev' = Event("begin_scan")
    /\ UNCHANGED <<file, state, todo, positions_to_close, next_order_id, loaded,
                   managed, raised, cycles, sold>>

\* The inputs of one iteration of the scan in the runs explored: candles, ticker
\* price and gateway answer.  A buy signal comes at a price of SignalPrices,
\* and so do the candles that give none; the candles of a signal come with an
\* unusable price too.  The iteration reads the gateway answer only after a
\* buy signal at a usable price; elsewhere one answer stands for all.
ScanInputs ==
    {i \in CandleFeeds \X TickerOutcomes \X BuyResponses :
        /\ i[2] \in SignalPrices \/ (i[1] = DipCandles /\ Not(i[2]))
        /\ \/ i[3] = BuyResponse("raise", MISSING, MISSING, "raise", MISSING, MISSING)
           \/ /\ ~NotRsi(FeedRsi[i[1]])
              /\ RsiBelow(FeedRsi[i[1]], RSI_OVERSOLD)
              /\ i[2] \in SignalPrices}

\* One iteration of the entry scan, lines 275-308, for SYMBOLS_TO_TRADE[scan].
ScanStep ==
    /\ pc = "scan"
    /\ scan <= Len(SYMBOLS_TO_TRADE)
    /\ ~AtMax(state.open_positions)
    /\ \E i \in ScanInputs :
        LET symbol == SYMBOLS_TO_TRADE[scan]
            r == ScanSymbol(symbol, i[1], FeedRsi[i[1]], i[2], state,
                            Capped(i[3], next_order_id), next_order_id)
        IN  /\ state' = r.state
            /\ next_order_id' = IF r.order.accepted THEN next_order_id + 1
                                ELSE next_order_id
            /\ ev' = [Event("scan") EXCEPT
                        !.symbol = symbol, !.before = state, !.placed = r.placed,
                        !.ret = r.ret,
                        !.order = r.order, !.published = r.records]
    /\ scan' = scan + 1
    /\ UNCHANGED <<file, pc, todo, positions_to_close, loaded, managed, raised, cycles, sold>>

\* run_trading_cycle, line 310: the scan is over (or broke off at the maximum)
\* and the state is saved.
SaveState ==
    /\ pc = "scan"
    /\ scan > Len(SYMBOLS_TO_TRADE) \/ AtMax(state.open_positions)
    /\ \E write \in WriteOutcomes :
        /\ file' = save_state(file, state, write)
        /\ ev' = [Event("save") EXCEPT !.io = write]
    /\ pc' = "summary"
    /\ UNCHANGED <<state, todo, positions_to_close, scan, next_order_id, loaded,
                   managed, raised, cycles, sold>>

\* run_trading_cycle, line 312: the cycle summary is published, and the cycle
\* returns.
PublishSummary ==
    /\ pc = "summary"
    /\ ev' = [Event("summary") EXCEPT !.published = <<Record("cycle_summary", "", 0)>>]
    /\ Exit
    /\ UNCHANGED <<file, next_order_id, raised, cycles, sold>>

Next ==
    \/ LoadState
    \/ ManageStep
    \/ ManageCommit
    \/ MaxPositionsReturn
    \/ BeginScan
    \/ ScanStep
    \/ SaveState
    \/ PublishSummary

Spec == Init /\ [][Next]_vars

\* The process is sequential and every call it makes returns: a cycle that
\* has a next step takes it.
FairSpec == Spec /\ WF_vars(Next)

\* ------------------------------------------------------- single calls

\* place_order, one iteration of the entry scan and manage_positions, each
\* called once on a state of the program, over wider inputs than the cycles
\* above explore.

\* The state after the first n symbols were bought at 100.00, under the order
\* ids 1..n.
RECURSIVE Holding(_)
Holding(n) ==
    IF n = 0 THEN DefaultState
    ELSE PlaceOrder(SYMBOLS_TO_TRADE[n], "buy", TRADE_AMOUNT_PER_COIN_USDT, 10000,
                    Holding(n - 1),
                    BuyResponse("ok", MISSING, MISSING, "ok", MISSING, MISSING), n).state

CallStates == {Holding(n) : n \in 0..MAX_OPEN_POSITIONS}

\* Arguments of place_order: 0.05, 10 and 50 USDT, at a price, 0 or None.
CallAmounts == {USDT \div 20, TRADE_AMOUNT_PER_COIN_USDT, 50 * USDT}
CallPrices == {0, NONE, 9800, 10000}
CallSymbols == {SYMBOLS_TO_TRADE[1], SYMBOLS_TO_TRADE[4]}

\* The gateway's answers to place_order: a market lookup that works or raises,
\* limits absent, null or set, a create_order that works or raises, and an
\* order whose price and filled amount are absent, null or set.
CallBuyResponses ==
    {BuyResponse(market, min_cost, min_amount, create, price, filled) :
        market \in {"ok", "raise"},
        min_cost \in {MISSING, NONE, 20 * USDT},
        min_amount \in {MISSING, NONE, 100, 1000},
        create \in {"ok", "raise"},
        price \in {MISSING, NONE, 9900},
        filled \in {MISSING, NONE, 100}}

\* The ticker prices manage_positions meets, around the thresholds 98.00 and
\* 105.00 of a position entered at 100.00, and the gateway's answers to a sell:
\* it raises, or returns an order whose cost is absent, null or 11 USDT.
CallTickerOutcomes == {NONE, 0, 9700, 9800, 10000, 10500, 10600}
CallSellResponses == SellResponsesOver({MISSING, NONE, 11 * USDT})

\* Close prices and periods handed to calculate_rsi: every sequence of at most
\* MaxCloses prices out of 1..MaxClose, and the periods 1..MaxPeriod.
MaxCloses == 5
MaxClose == 4
MaxPeriod == 3
CallCloses == UNION {[1..n -> 1..MaxClose] : n \in 0..MaxCloses}
CallPeriods == 1..MaxPeriod

CallInit ==
    /\ file = NoFile
    /\ state \in CallStates
    /\ pc = "call"
    /\ todo = <<>>
    /\ positions_to_close = <<>>
    /\ scan = 1
    /\ next_order_id = Len(state.open_positions) + 1
    /\ loaded = DefaultState
    /\ managed = 0
    /\ raised = {}
    /\ cycles = 0
    /\ sold = {}
    /\ ev = Event("init")

\* What a call met and did: its arguments, the state dict it found, whether
\* place_order was called and what it returned, the order sent to the gateway,
\* whether the except branch of place_order ran, the records handed to
\* save_result.
Called(op, args, placed, r) ==
    [op |-> op, args |-> args, before |-> state, placed |-> placed, ret |-> r.ret,
     order |-> r.order, failed |-> r.failed, published |-> r.records]

Returned ==
    /\ pc' = "returned"
    /\ UNCHANGED <<file, todo, positions_to_close, scan, next_order_id, loaded,
                   managed, raised, cycles, sold>>

\* place_order(symbol, side, amount_usdt, current_price, state)
CallPlaceOrder ==
    /\ pc = "call"
    /\ \E symbol \in CallSymbols, side \in {"buy", "sell"}, amount_usdt \in CallAmounts,
          current_price \in CallPrices, gw \in CallBuyResponses, net \in SaveOutcomes :
        LET r == PlaceOrderReporting(symbol, side, amount_usdt, current_price, state,
                                     gw, next_order_id, net)
        IN  /\ state' = r.state
            /\ ev' = Called("place_order",
                            [symbol |-> symbol, side |-> side, amount_usdt |-> amount_usdt,
                             current_price |-> current_price, gw |-> gw], TRUE, r)
    /\ Returned

\* One iteration of the entry scan, lines 275-308.
CallScanSymbol ==
    /\ pc = "call"
    /\ ~AtMax(state.open_positions)
    /\ \E symbol \in {SYMBOLS_TO_TRADE[k] : k \in 1..Len(SYMBOLS_TO_TRADE)},
          ohlcv \in CandleFeeds, current_price \in CallPrices, gw \in BuyResponses :
        LET rsi == calculate_rsi(ohlcv, RSI_PERIOD)
            r == ScanSymbol(symbol, ohlcv, rsi, current_price, state, gw, next_order_id)
        IN  /\ state' = r.state
            /\ ev' = Called("scan",
                            [symbol |-> symbol, ohlcv |-> ohlcv, rsi |-> rsi,
                             current_price |-> current_price, gw |-> gw], r.placed, r)
    /\ Returned

\* manage_positions(state)
CallManagePositions ==
    /\ pc = "call"
    /\ \E inputs \in [1..Len(state.open_positions) ->
                        CallTickerOutcomes \X CallSellResponses] :
        LET r == ManagePositions(state, inputs)
        IN  /\ state' = r.state
            /\ ev' = [op |-> "manage_positions", before |-> state, steps |-> r.steps]
    /\ Returned

\* PionexTrader(api_key, api_secret, result_logger)
CallConstruct ==
    /\ pc = "call"
    /\ \E api_key \in Credentials, api_secret \in Credentials,
          init \in {"ok", "raise"} :
        LET r == Construct(api_key, api_secret, init)
        IN  ev' = [op |-> "construct",
                   args |-> [api_key |-> api_key, api_secret |-> api_secret,
                             init |-> init],
                   raised |-> r.raised, contacted |-> r.contacted,
                   published |-> r.records]
    /\ state' = state
    /\ Returned

\* calculate_rsi(ohlcv, period) on candles with the close prices closes
CallCalculateRsi ==
    /\ pc = "call"
    /\ \E closes \in CallCloses, period \in CallPeriods :
        ev' = [op |-> "calculate_rsi",
               args |-> [closes |-> closes, period |-> period],
               ret |-> calculate_rsi(closes, period)]
    /\ state' = state
    /\ Returned

\* save_result(data, result_type)
CallSaveResult ==
    /\ pc = "call"
    /\ \E outcome \in SaveOutcomes :
        ev' = [op |-> "save_result", args |-> outcome, before |-> state,
               raised |-> SaveResultRaises(outcome), ret |-> save_result(outcome)]
    /\ state' = state
    /\ Returned

CallNext ==
    \/ CallPlaceOrder
    \/ CallScanSymbol
    \/ CallManagePositions
    \/ CallSaveResult
    \/ CallConstruct
    \/ CallCalculateRsi

Calls == CallInit /\ [][CallNext]_vars

\* ------------------------------------------------- claims on trading cycles

\* open_positions as the next cycle will load it from the state file.
Persisted ==
    load_state(file, "ok").open_positions

\* No two positions of open_positions are on the same symbol.
OnePerSymbol(open_positions) ==
    \A j, k \in 1..Len(open_positions) :
        open_positions[j].symbol = open_positions[k].symbol => j = k

\* The last step was an iteration of the entry scan that sent a buy order to
\* the gateway.
BuySubmitted ==
    ev.op = "scan" /\ ev.order.submitted /\ ev.order.side = "buy"

\* C1: from the default state, whatever the gateway answers, open_positions
\* never holds more than 3 positions: not when manage_positions has returned,
\* not during the entry scan, not in the state file a cycle leaves behind.
C1_MaxOpenPositions ==
    /\ Len(state.open_positions) <= 3
    /\ Len(Persisted) <= 3

\* A scan that stopped early with 3 positions open, which were then saved.
C1_Witness ==
    /\ pc = "summary"
    /\ scan <= Len(SYMBOLS_TO_TRADE)
    /\ Len(state.open_positions) = 3
    /\ Len(Persisted) = 3

\* C2: no two positions of open_positions, in memory or in the state file, are
\* on the same symbol; an iteration of the entry scan that finds a position
\* open on its symbol calls place_order not at all and submits no order.
C2_OnePositionPerSymbol ==
    /\ OnePerSymbol(state.open_positions)
    /\ OnePerSymbol(Persisted)
    /\ ev.op = "scan"
       /\ (\E k \in 1..Len(ev.before.open_positions) :
              ev.before.open_positions[k].symbol = ev.symbol)
       => ~ev.placed /\ ~ev.order.submitted /\ state = ev.before

\* The scan of a later cycle came to a symbol whose position an earlier cycle
\* opened, and passed it by.
C2_Witness ==
    /\ ev.op = "scan"
    /\ cycles >= 2
    /\ \E k \in 1..Len(ev.before.open_positions) :
          ev.before.open_positions[k].symbol = ev.symbol
    /\ ~ev.placed

\* C3 as stated: a cycle whose loaded state holds 3 open positions submits no
\* buy order.
C3_NoBuyWhenLoadedAtMax ==
    BuySubmitted => Len(loaded.open_positions) < 3

\* C3 amended: a cycle in which 3 positions are open when manage_positions
\* returns submits no buy order.
C3_NoBuyWhenAtMaxAfterManage ==
    BuySubmitted => managed < 3

\* A cycle loaded 3 positions, closed none of them, and returned without a scan.
C3_Witness ==
    /\ ev.op = "return_at_max"
    /\ cycles >= 2

\* C9: when the gateway raises on the sell order of a triggered exit, the
\* iteration publishes an error record and changes neither the position nor a
\* budget; the position is in open_positions, as it was loaded, when
\* manage_positions has returned; and the next cycle finds it in the state it
\* loads, to evaluate its exit again.
C9_FailedCloseRetainsPosition ==
    /\ ev.op = "manage" /\ ev.order.submitted /\ ~ev.order.accepted
       => /\ state = ev.before
          /\ ev.published = <<Record("error", ev.symbol, ev.order_id)>>
    /\ pc \in {"gate", "scan", "summary"}
       => \A id \in raised :
            /\ HasId(state.open_positions, id)
            /\ PositionOf(state.open_positions, id) = PositionOf(loaded.open_positions, id)
    /\ pc = "idle"
       => \A id \in raised : HasId(Persisted, id)

\* ---------------------------------------------------- claims on single calls

\* A call of the given operation has returned.
After(op) ==
    pc = "returned" /\ ev.op = op

\* A field of a gateway answer holds a value: it is neither absent nor null.
Reported(field) ==
    field # MISSING /\ field # NONE

\* C4: an iteration of the entry scan with fewer than 3 positions open, candles
\* that are not empty, a price, no position on its symbol and an RSI r with
\* 0 <= r < 30 calls place_order, as a buy of that symbol for
\* TRADE_AMOUNT_PER_COIN_USDT.
C4_BuyOnOversold ==
    After("scan")
    /\ Len(ev.before.open_positions) < 3
    /\ ev.args.ohlcv # <<>>
    /\ ev.args.current_price > 0
    /\ ~(\E k \in 1..Len(ev.before.open_positions) :
            ev.before.open_positions[k].symbol = ev.args.symbol)
    /\ ~ev.args.rsi.none
    /\ 0 <= ev.args.rsi.num
    /\ ev.args.rsi.num < 30 * ev.args.rsi.den
    => /\ ev.placed
       /\ ev.order.submitted
          => /\ ev.order.side = "buy"
             /\ ev.order.symbol = ev.args.symbol
             /\ ev.order.amount_base =
                    TRADE_AMOUNT_PER_COIN_USDT \div ev.args.current_price

\* The minimum cost and the minimum amount of the market, as place_order
\* reads them: 0.1 USDT and 0 where the market states none.
C5_MinCost == IF ev.args.gw.min_cost = MISSING THEN USDT \div 10 ELSE ev.args.gw.min_cost
C5_MinAmount == IF ev.args.gw.min_amount = MISSING THEN 0 ELSE ev.args.gw.min_amount

\* C5: place_order returns no order, submits none to the gateway and leaves
\* open_positions and both budgets as they were, whenever it is a buy of more
\* than available_budget_usdt, or amount_usdt is below the minimum cost of the
\* market, or the base amount computed is below its minimum amount.
C5_EntryGating ==
    After("place_order")
    /\ \/ ev.args.side = "buy" /\ ev.args.amount_usdt > ev.before.available_budget_usdt
       \/ C5_MinCost # NONE /\ ev.args.amount_usdt < C5_MinCost
       \/ /\ ev.args.current_price > 0
          /\ C5_MinAmount # NONE
          /\ ev.args.amount_usdt \div ev.args.current_price < C5_MinAmount
    => /\ ev.ret = "none"
       /\ ~ev.order.submitted
       /\ state = ev.before

\* place_order turned away 0.05 USDT against the default minimum cost of 0.1,
\* the budget being there and the gateway in order.
C5_Witness ==
    /\ After("place_order")
    /\ ev.args.amount_usdt = USDT \div 20
    /\ ev.args.current_price > 0
    /\ ev.args.gw.market = "ok"
    /\ ev.args.gw.min_cost = MISSING
    /\ ev.ret = "none"
    /\ ev.published = <<>>

\* The entry price C6 states: the fill price the gateway reports, the price
\* before the trade when the price field is missing or null.
C6_EntryPrice ==
    IF Reported(ev.args.gw.price) THEN ev.args.gw.price ELSE ev.args.current_price

\* C6: a buy order the gateway accepts registers exactly one new position
\* under the id of the order, with the entry price the gateway reports (the
\* price before the trade when it reports none or null), the take-profit and
\* stop-loss prices derived from it and the notional asked for, and takes that
\* notional off available_budget_usdt.
C6_AcceptedBuyRegisters ==
    After("place_order") /\ ev.args.side = "buy" /\ ev.order.accepted
    => /\ Len(state.open_positions) = Len(ev.before.open_positions) + 1
       /\ HasId(state.open_positions, ev.order.id)
       /\ LET position == PositionOf(state.open_positions, ev.order.id)
          IN  /\ position.symbol = ev.args.symbol
              /\ position.entry_price = C6_EntryPrice
              /\ position.take_profit_price = (C6_EntryPrice * 105) \div 100
              /\ position.stop_loss_price = (C6_EntryPrice * 98) \div 100
              /\ position.amount_usdt = ev.args.amount_usdt
       /\ state.available_budget_usdt =
              ev.before.available_budget_usdt - ev.args.amount_usdt
       /\ state.total_budget_usdt = ev.before.total_budget_usdt

\* C10: a place_order in which an exception occurs returns no order, publishes
\* one error record, which names the symbol, and leaves the state as it was:
\* no position registered, no budget changed.
C10_FailedOrderLeavesState ==
    After("place_order") /\ ev.failed
    => /\ ev.ret = "none"
       /\ Len(SelectSeq(ev.published, LAMBDA rec : rec.type = "error")) = 1
       /\ \A k \in 1..Len(ev.published) :
             ev.published[k].type = "error" => ev.published[k].symbol = ev.args.symbol
       /\ state = ev.before

\* create_order raised on a buy that had passed every gate.
C10_Witness ==
    /\ After("place_order")
    /\ ev.failed
    /\ ev.args.side = "buy"
    /\ ev.order.submitted
    /\ ~ev.order.accepted

\* The positions of a manage_positions call whose sell the gateway did not
\* accept, in the order of open_positions.
RECURSIVE C7_Unsold(_)
C7_Unsold(steps) ==
    IF steps = <<>> THEN <<>>
    ELSE IF Head(steps).order.accepted THEN C7_Unsold(Tail(steps))
    ELSE <<Head(steps).position>> \o C7_Unsold(Tail(steps))

\* C7: manage_positions, for each position whose price it gets, attempts a sell
\* with reason take_profit when the price is at or above take_profit_price,
\* else a sell with reason stop_loss when the price is at or below
\* stop_loss_price, and else submits no order and changes neither the position
\* nor a budget; when it has returned, the positions whose sell succeeded are
\* gone from open_positions and no others.
C7_ExitRule ==
    After("manage_positions")
    => /\ \A k \in 1..Len(ev.steps) :
            LET step == ev.steps[k]
            IN  step.current_price > 0
                => IF step.current_price >= step.position.take_profit_price
                   THEN /\ step.order.submitted
                        /\ step.order.side = "sell"
                        /\ step.reason = "take_profit"
                   ELSE IF step.current_price <= step.position.stop_loss_price
                   THEN /\ step.order.submitted
                        /\ step.order.side = "sell"
                        /\ step.reason = "stop_loss"
                   ELSE /\ ~step.order.submitted
                        /\ step.after = step.before
       /\ state.open_positions = C7_Unsold(ev.steps)

\* C8: a close whose sell the gateway accepted takes as exit_value_usdt the
\* cost the gateway reports, and amount_base * current_price when the cost
\* field is missing or null; it adds exit_value_usdt to available_budget_usdt
\* and exit_value_usdt - position.amount_usdt to total_budget_usdt.
C8_CloseAccounting ==
    After("manage_positions")
    => \A k \in 1..Len(ev.steps) :
          LET step == ev.steps[k]
              exit_value_usdt ==
                  IF Reported(step.gw.cost) THEN step.gw.cost
                  ELSE step.position.amount_base * step.current_price
          IN  step.order.accepted
              => /\ step.after.available_budget_usdt =
                        step.before.available_budget_usdt + exit_value_usdt
                 /\ step.after.total_budget_usdt =
                        step.before.total_budget_usdt + exit_value_usdt
                        - step.position.amount_usdt

\* ------------------------------------------- further claims on trading cycles

\* A cycle has returned and no other has started.
CycleReturned ==
    pc = "idle" /\ cycles > 0

\* C11: a run_trading_cycle that returns has first called save_state on the
\* final state and then published exactly one cycle_summary record, on the
\* path through the entry scan and on the path that skips it at 3 open
\* positions alike.
C11_SummaryOnEveryReturn ==
    /\ pc = "summary" => ev.op = "save"
    /\ CycleReturned
       => Len(SelectSeq(ev.published, LAMBDA rec : rec.type = "cycle_summary")) = 1

\* --------------------------------------------- further claims on single calls

PersistedState ==
    load_state(file, "ok")

\* C13: in every state persisted at the end of a cycle, over any sequence of
\* cycles from the default state, available_budget_usdt is at most
\* total_budget_usdt.
C13_AvailableWithinTotal ==
    PersistedState.available_budget_usdt <= PersistedState.total_budget_usdt

\* A cycle has persisted a state with a realised loss and a position open.
C13_Witness ==
    /\ CycleReturned
    /\ file.kind = "json"
    /\ PersistedState.total_budget_usdt < DefaultState.total_budget_usdt
    /\ PersistedState.available_budget_usdt < PersistedState.total_budget_usdt

\* C14: constructing the trading client with an absent or empty API key or
\* secret fails with an invalid-configuration error, hands an error record to
\* the result logger before failing, and does not contact the gateway.
C14_MissingCredentials ==
    After("construct")
    /\ (NotCredential(ev.args.api_key) \/ NotCredential(ev.args.api_secret))
    => /\ ev.raised = "ValueError"
       /\ ~ev.contacted
       /\ \E k \in 1..Len(ev.published) : ev.published[k].type = "error"

StrictlyIncreasing(closes) ==
    \A i \in 1..(Len(closes) - 1) : closes[i] < closes[i + 1]

NonDecreasing(closes) ==
    \A i \in 1..(Len(closes) - 1) : closes[i] <= closes[i + 1]

\* The final smoothed avg_loss of calculate_rsi, as a fraction.
FinalAvgLoss(closes, period) ==
    Smooth(Losses(Deltas(closes)), period, period + 1,
           Sum(Take(Losses(Deltas(closes)), period)), period)

\* C16: for every period p >= 1 and every strictly increasing sequence of at
\* least p + 1 closes calculate_rsi returns exactly 100; it returns 100 whenever
\* the final smoothed avg_loss is 0 (as when no close is below the one before
\* it), and no result comes from a division by zero.
C16_RsiHundred ==
    After("calculate_rsi")
    => LET closes == ev.args.closes
           period == ev.args.period
           hundred == [none |-> FALSE, num |-> 100, den |-> 1]
       IN  /\ StrictlyIncreasing(closes) /\ Len(closes) >= period + 1
              => ev.ret = hundred
           /\ ~ev.ret.none /\ NonDecreasing(closes) => ev.ret = hundred
           /\ ~ev.ret.none /\ FinalAvgLoss(closes, period).num = 0 => ev.ret = hundred
           /\ ev.ret.den # 0

\* Four rising closes under period 2: the smoothing loop has run.
C16_Witness ==
    /\ After("calculate_rsi")
    /\ ev.args.closes = <<1, 2, 3, 4>>
    /\ ev.args.period = 2
    /\ ev.ret.num = 100

\* A step of a running cycle takes a position out of open_positions.
RemovesPosition ==
    /\ pc \in {"manage", "gate", "scan"}
    /\ pc' # "idle"
    /\ \E k \in 1..Len(state.open_positions) :
         ~HasId(state'.open_positions, state.open_positions[k].id)

\* C17: within one cycle every exit evaluation and every sell order for the
\* positions loaded at its start comes before the first buy order of the entry
\* scan, and no position leaves open_positions until every loaded position has
\* been evaluated.
C17_ExitsBeforeEntries ==
    /\ [](ev.order.submitted /\ ev.order.side = "sell"
            => ev.op = "manage" /\ pc = "manage")
    /\ [](ev.order.submitted /\ ev.order.side = "buy"
            => ev.op = "scan" /\ pc = "scan" /\ todo = <<>>)
    /\ [](pc \in {"gate", "scan", "summary"} => todo = <<>>)
    /\ [][RemovesPosition => pc = "manage" /\ todo = <<>>]_vars

\* A buy is accepted in a cycle that loaded two positions and sold one.
C17_Witness ==
    /\ ev.op = "scan"
    /\ ev.order.accepted
    /\ Len(loaded.open_positions) >= 2
    /\ positions_to_close # <<>>

\* The step just taken evaluated a position or a symbol and no order was
\* accepted: the ticker or the candles failed or gave nothing, the RSI was
\* unavailable, the gateway raised, or there was nothing to do.
NothingAccepted ==
    /\ ev.op \in {"manage", "scan"}
    /\ ~ev.order.accepted

\* A step that evaluates a position or a symbol with no order accepted.
UnitSkipped ==
    /\ pc \in {"manage", "scan"}
    /\ pc' = pc
    /\ ev'.op \in {"manage", "scan"}
    /\ ~ev'.order.accepted

\* C18: a failure on one position or symbol skips that one only.  The step
\* leaves the state and the list of closed positions as they were and moves
\* on by exactly one position or symbol; the cycle saves the state only after
\* every loaded position was evaluated and the scan ran to its end or to the
\* limit on open positions; and after every such step the cycle goes on to
\* save_state and returns.
C18_FailureSkipsOneUnit ==
    /\ [][UnitSkipped
           => /\ state' = state
              /\ positions_to_close' = positions_to_close
              /\ pc = "manage" => todo' = Tail(todo) /\ scan' = scan
              /\ pc = "scan" => scan' = scan + 1 /\ todo' = todo]_vars
    /\ [](pc = "summary"
            => /\ todo = <<>>
               /\ ev.op = "save"
               /\ scan > Len(SYMBOLS_TO_TRADE) \/ AtMax(state.open_positions))
    /\ [](CycleReturned => ev.op \in {"summary", "return_at_max"})
    /\ (NothingAccepted ~> CycleReturned)

\* The gateway raised on the sell of the first of two loaded positions, and
\* the second has been evaluated after it.
C18_Witness ==
    /\ pc = "manage"
    /\ todo = <<>>
    /\ Len(loaded.open_positions) = 2
    /\ loaded.open_positions[1].id \in raised
    /\ ev.order_id = loaded.open_positions[2].id

\* The sum of amount_usdt over the positions of open_positions.
Committed(open_positions) ==
    Sum([k \in 1..Len(open_positions) |-> open_positions[k].amount_usdt])

\* C19: in every state persisted at the end of a cycle, over any sequence of
\* cycles, prices and order outcomes from the default state, total_budget_usdt
\* is available_budget_usdt plus the amount_usdt of all open positions.
C19_BudgetIdentity ==
    PersistedState.total_budget_usdt
        = PersistedState.available_budget_usdt + Committed(PersistedState.open_positions)

\* A cycle has persisted a state with a realised profit and two positions open.
C19_Witness ==
    /\ CycleReturned
    /\ file.kind = "json"
    /\ Len(PersistedState.open_positions) = 2
    /\ PersistedState.total_budget_usdt > INITIAL_BUDGET_USDT


\* A step of manage_positions in which the gateway accepts a sell.
SellAccepted ==
    /\ pc = "manage"
    /\ todo # <<>>
    /\ todo' = Tail(todo)
    /\ ev'.op = "manage"
    /\ ev'.order.accepted

\* C20: over any sequence of trading cycles that do not overlap, the gateway
\* accepts at most one market sell for each position (each buy order id), also
\* when save_state fails at the end of a cycle or an exception follows the
\* accepted sell.
C20_OneSellPerPosition ==
    [][SellAccepted => Head(todo) \notin sold]_vars

====
